---------------------------- MODULE Spec2Model ----------------------------
(***************************************************************************)
(* A model of the sudoku engine of sudoku_module.c: the board helpers, the *)
(* validator, the randomized backtracking solver, and the puzzle carver.   *)
(*                                                                         *)
(* The C program is single threaded.  Every API call runs to completion    *)
(* before the next one starts; the model records the call in progress in   *)
(* pc.  sudoku_seed, sudoku_can_place, sudoku_is_valid_partial and the      *)
(* board helpers are one step each.  The recursion of solve_backtrack is   *)
(* unfolded into an explicit stack of activation frames (one step per      *)
(* activation entered and one per failed recursive call returned), and the *)
(* carving loop of sudoku_generate_puzzle takes one step per iteration.    *)
(*                                                                         *)
(* rand()/srand() belong to the C library, not to the repository.  They    *)
(* are modelled as a linear congruential generator whose whole state is    *)
(* g_rand, so that the stream is a function of the seed only.  One seed    *)
(* (the generator's fixed point) yields a constant stream: ISO C places no *)
(* quality requirement on rand(), and that stream is what drives the       *)
(* carving loop into its attempt budget.                                   *)
(***************************************************************************)
EXTENDS Integers, Sequences, FiniteSets, TLC

(* ------------------------------ constants ------------------------------ *)

SUDOKU_SIZE == 9

SUDOKU_DIFFICULTY_EASY == 0
SUDOKU_DIFFICULTY_MEDIUM == 1
SUDOKU_DIFFICULTY_HARD == 2

SUDOKU_OK == 0
SUDOKU_ERR_INVALID_ARG == 1
SUDOKU_ERR_UNSOLVABLE == 2

max_tries == 2000

\* The stand-in for the C library's generator: x' = (x * RAND_MUL + RAND_INC) % RAND_MOD.
RAND_MOD == 32749
RAND_MUL == 266
RAND_INC == 32484

(* -------------------------------- bounds ------------------------------- *)

\* sudoku_seed is called with seeds 0..MaxSeed.
MaxSeed == 1
\* Difficulty arguments are 0..MaxDifficulty (3 is not an enumerator).
MaxDifficulty == 3

Idx == 0..(SUDOKU_SIZE - 1)
Seeds == 0..MaxSeed
Difficulties == 0..MaxDifficulty

(* --------------------------------- rng --------------------------------- *)

\* srand(seed): the generator's state after seeding.
srand(seed) == seed % RAND_MOD

\* rand(): the next state of the generator, which is also the value returned.
rand(s) == (s * RAND_MUL + RAND_INC) % RAND_MOD

\* rand_int(max_exclusive) on generator state s: the value and the new state.
rand_int(max_exclusive, s) ==
    [v |-> rand(s) % max_exclusive, s |-> rand(s)]

\* The body of the loop of shuffle_ints at index i: a[i] and a[j] are swapped
\* (a is 1-based here: a[k+1] is the C a[k]).
shuffle_swap(a, i, s) ==
    LET j == rand_int(i + 1, s)
    IN [a |-> [a EXCEPT ![i + 1] = a[j.v + 1], ![j.v + 1] = a[i + 1]], s |-> j.s]

RECURSIVE shuffle_loop(_, _, _)
\* The loop of shuffle_ints from index i down to 1.  x is the array and the generator
\* state after the iteration at i (bound as a value, so that it is computed once).
shuffle_loop(a, i, s) ==
    IF i > 0
    THEN CHOOSE r \in {shuffle_loop(x.a, i - 1, x.s) : x \in {shuffle_swap(a, i, s)}} : TRUE
    ELSE [a |-> a, s |-> s]

\* shuffle_ints(a, n): Fisher-Yates; returns the shuffled array and the new generator state.
shuffle_ints(a, n, s) == shuffle_loop(a, n - 1, s)

(* ----------------------------- board helpers --------------------------- *)

\* A board with every cell 0 (static storage before any call).
ZeroBoard == [r \in Idx |-> [c \in Idx |-> 0]]

\* Faulty variant of sudoku_clear: row 0 is left as it was.
clear_but_row_0(b) == [r \in Idx |-> [c \in Idx |-> IF r = 0 THEN b[r][c] ELSE 0]]

\* sudoku_clear(board) for a non-null board: the new value of the board.
sudoku_clear(b) == [r \in Idx |-> [c \in Idx |-> 0]]

\* Faulty variant of sudoku_copy: the cells are copied transposed.
copy_transposed(src) == [r \in Idx |-> [c \in Idx |-> src[c][r]]]

\* sudoku_copy(dst, src): memcpy of the cells; the new value of dst.
sudoku_copy(src) == [r \in Idx |-> [c \in Idx |-> src[r][c]]]

is_in_range_1_9(v) == v >= 1 /\ v <= 9

\* Faulty variants of sudoku_can_place: the box, the row or the column is not looked at.
can_place_no_box(b, row, col, value) ==
    IF row < 0 \/ row >= 9 \/ col < 0 \/ col >= 9 THEN FALSE
    ELSE IF ~is_in_range_1_9(value) THEN FALSE
    ELSE ~ \E i \in 0..8 : b[row][i] = value \/ b[i][col] = value

can_place_no_row(b, row, col, value) ==
    IF row < 0 \/ row >= 9 \/ col < 0 \/ col >= 9 THEN FALSE
    ELSE IF ~is_in_range_1_9(value) THEN FALSE
    ELSE IF \E i \in 0..8 : b[i][col] = value THEN FALSE
    ELSE LET br == (row \div 3) * 3
             bc == (col \div 3) * 3
         IN ~ \E r \in br..(br + 2), c \in bc..(bc + 2) : b[r][c] = value

can_place_no_col(b, row, col, value) ==
    IF row < 0 \/ row >= 9 \/ col < 0 \/ col >= 9 THEN FALSE
    ELSE IF ~is_in_range_1_9(value) THEN FALSE
    ELSE IF \E i \in 0..8 : b[row][i] = value THEN FALSE
    ELSE LET br == (row \div 3) * 3
             bc == (col \div 3) * 3
         IN ~ \E r \in br..(br + 2), c \in bc..(bc + 2) : b[r][c] = value

\* sudoku_can_place for a non-null board: TRUE is the C 1, FALSE the C 0.
sudoku_can_place(b, row, col, value) ==
    IF row < 0 \/ row >= 9 \/ col < 0 \/ col >= 9 THEN FALSE
    ELSE IF ~is_in_range_1_9(value) THEN FALSE
    ELSE IF \E i \in 0..8 : b[row][i] = value \/ b[i][col] = value THEN FALSE
    ELSE LET br == (row \div 3) * 3
             bc == (col \div 3) * 3
         IN ~ \E r \in br..(br + 2), c \in bc..(bc + 2) : b[r][c] = value

\* Faulty variant of sudoku_is_valid_partial: the probed cell is not blanked first.
valid_partial_no_blank(b) ==
    \A r \in Idx, c \in Idx :
        LET v == b[r][c]
        IN IF v = 0 THEN TRUE
           ELSE IF ~is_in_range_1_9(v) THEN FALSE
           ELSE sudoku_can_place(b, r, c, v)

\* Faulty variant of sudoku_is_valid_partial: a value outside 1..9 is skipped like a 0.
valid_partial_skips_range(b) ==
    \A r \in Idx, c \in Idx :
        LET v == b[r][c]
        IN IF v = 0 \/ ~is_in_range_1_9(v) THEN TRUE
           ELSE LET tmp == [b EXCEPT ![r][c] = 0]
                IN sudoku_can_place(tmp, r, c, v)

\* sudoku_is_valid_partial for a non-null board.  tmp is the local copy the probe blanks.
sudoku_is_valid_partial(b) ==
    \A r \in Idx, c \in Idx :
        LET v == b[r][c]
        IN IF v = 0 THEN TRUE
           ELSE IF ~is_in_range_1_9(v) THEN FALSE
           ELSE LET tmp == [b EXCEPT ![r][c] = 0]
                IN sudoku_can_place(tmp, r, c, v)

\* find_empty_cell: <<found, row, col>> of the first 0 in row-major order.
find_empty_cell(b) ==
    IF \E k \in 0..80 : b[k \div 9][k % 9] = 0
    THEN LET k == CHOOSE k \in 0..80 :
                    /\ b[k \div 9][k % 9] = 0
                    /\ \A m \in 0..(k - 1) : b[m \div 9][m % 9] # 0
         IN <<1, k \div 9, k % 9>>
    ELSE <<0, 0, 0>>

\* Faulty variant of count_holes: the cells that are not 0 are counted.
count_givens(b) == Cardinality({k \in 0..80 : b[k \div 9][k % 9] # 0})

\* count_holes
count_holes(b) == Cardinality({k \in 0..80 : b[k \div 9][k % 9] = 0})

\* Faulty variant of sudoku_holes_for_difficulty: Easy is served the default.
holes_easy_as_default(difficulty) ==
    CASE difficulty = SUDOKU_DIFFICULTY_MEDIUM -> 45
      [] difficulty = SUDOKU_DIFFICULTY_HARD -> 55
      [] OTHER -> 45

sudoku_holes_for_difficulty(difficulty) ==
    CASE difficulty = SUDOKU_DIFFICULTY_EASY -> 35
      [] difficulty = SUDOKU_DIFFICULTY_MEDIUM -> 45
      [] difficulty = SUDOKU_DIFFICULTY_HARD -> 55
      [] OTHER -> 45


(* ---------------------------------- state ------------------------------ *)

VARIABLES
    g_seeded,   \* the static flag of the rng wrapper
    g_rand,     \* the C library generator's state
    boards,     \* the SudokuBoard objects: out_solution, out_puzzle, tmp, board (the caller's own)
    pc,         \* "idle" | "solve_backtrack" | "carve": where the call in progress stands
    api,        \* the API function called last (in progress while pc # "idle")
    inner,      \* the function that called solve_backtrack: sudoku_solve or sudoku_generate_solution
    sb,         \* the board solve_backtrack works on (a key of boards)
    stack,      \* the activations of solve_backtrack: [row, col, nums, i]
    mode,       \* "call": the top activation's recursive call starts; "ret": it returned 0
    ret,        \* the value the last finished API call returned (-1: none yet)
    difficulty, \* generate_puzzle's argument
    tries,      \* generate_puzzle's attempt counter
    cell,       \* generate_puzzle's rr, cc, saved of the iteration in progress
    args,       \* the arguments of the last sudoku_seed, sudoku_can_place or sudoku_solve call
    ncalls,     \* solver and generator API calls made so far
    entry,      \* history: the board as it was handed to the last search (sudoku_solve's argument at entry)
    seeds,      \* history: was sudoku_seed called, and how often seed_if_needed seeded
    run,        \* history: the seed sudoku_seed was given right before this generate_puzzle (-1: none)
    ref         \* history: the first puzzle generated right after a sudoku_seed call

vars == <<g_seeded, g_rand, boards, pc, api, inner, sb, stack, mode, ret,
          difficulty, tries, cell, args, ncalls, entry, seeds, run, ref>>

\* At most MaxCalls solver and generator API calls are made in one run of the program.
MaxCalls == 2

NoCell == [rr |-> 0, cc |-> 0, saved |-> 0]
NoArgs == [row |-> 0, col |-> 0, value |-> 0, seed |-> -1, src |-> "none"]
NoRef == [seed |-> -1]

Init ==
    /\ g_seeded = 0
    /\ g_rand = srand(1)
    /\ boards = [out_solution |-> ZeroBoard, out_puzzle |-> ZeroBoard,
                 tmp |-> ZeroBoard, board |-> ZeroBoard]
    /\ pc = "idle"
    /\ api = "none"
    /\ inner = "none"
    /\ sb = "board"
    /\ stack = <<>>
    /\ mode = "call"
    /\ ret = -1
    /\ difficulty = 0
    /\ tries = 0
    /\ cell = NoCell
    /\ args = NoArgs
    /\ ncalls = 0
    /\ entry = ZeroBoard
    /\ seeds = [explicit |-> FALSE, default |-> 0]
    /\ run = -1
    /\ ref = NoRef

(* ------------------------------- seeding ------------------------------- *)

\* Faulty variant of sudoku_seed: a stream that is already seeded is left where it is.
seed_keeps_stream(seed, by, st) ==
    [g_seeded |-> 1,
     g_rand |-> IF st.g_seeded = 1 THEN st.g_rand ELSE srand(seed),
     seeds |-> IF by = "seed_if_needed"
               THEN [st.seeds EXCEPT !.default = @ + 1]
               ELSE [st.seeds EXCEPT !.explicit = TRUE]]

\* The effect of sudoku_seed(seed) on a state [g_seeded, g_rand, seeds]; by is the caller.
sudoku_seed(seed, by, st) ==
    [g_seeded |-> 1,
     g_rand |-> srand(seed),
     seeds |-> IF by = "seed_if_needed"
               THEN [st.seeds EXCEPT !.default = @ + 1]
               ELSE [st.seeds EXCEPT !.explicit = TRUE]]

\* Faulty variant of seed_if_needed: it seeds whatever the flag says.
seed_always(st) ==
    [g_seeded |-> 1,
     g_rand |-> srand(0),
     seeds |-> [st.seeds EXCEPT !.default = @ + 1]]

\* The effect of seed_if_needed() on a state [g_seeded, g_rand, seeds].
seed_if_needed(st) ==
    IF st.g_seeded = 0 THEN sudoku_seed(0, "seed_if_needed", st) ELSE st

RngState == [g_seeded |-> g_seeded, g_rand |-> g_rand, seeds |-> seeds]

\* API: sudoku_seed(s).
Seed(s) ==
    /\ pc = "idle"
    /\ LET st == sudoku_seed(s, "sudoku_seed", RngState)
       IN /\ g_seeded' = st.g_seeded
          /\ g_rand' = st.g_rand
          /\ seeds' = st.seeds
    /\ api' = "sudoku_seed"
    /\ args' = [NoArgs EXCEPT !.seed = s]
    /\ UNCHANGED <<boards, pc, inner, sb, stack, mode, ret, difficulty, tries,
                   cell, ncalls, entry, run, ref>>

(* -------------------------------- solver ------------------------------- *)

Top(stk) == stk[Len(stk)]
Pop(stk) == SubSeq(stk, 1, Len(stk) - 1)

\* Faulty variant of try_candidates: the last candidate is never tried.
try_candidates_but_last(b, stk, k) ==
    LET f == Top(stk)
        ok == {m \in k..7 : sudoku_can_place(b, f.row, f.col, f.nums[m + 1])}
    IN IF ok # {}
       THEN LET m == CHOOSE m \in ok : \A n \in ok : m <= n
            IN [b |-> [b EXCEPT ![f.row][f.col] = f.nums[m + 1]],
                stack |-> [stk EXCEPT ![Len(stk)].i = m],
                mode |-> "call", done |-> -1]
       ELSE [b |-> b, stack |-> Pop(stk), mode |-> "ret",
             done |-> IF Len(stk) = 1 THEN 0 ELSE -1]

\* The for loop of the top activation of solve_backtrack, from index k on, on board b:
\* it places the first candidate sudoku_can_place accepts and calls itself (mode "call"),
\* or runs out of candidates and returns 0 to its caller (mode "ret"; done = 0 at the root).
try_candidates(b, stk, k) ==
    LET f == Top(stk)
        ok == {m \in k..8 : sudoku_can_place(b, f.row, f.col, f.nums[m + 1])}
    IN IF ok # {}
       THEN LET m == CHOOSE m \in ok : \A n \in ok : m <= n
            IN [b |-> [b EXCEPT ![f.row][f.col] = f.nums[m + 1]],
                stack |-> [stk EXCEPT ![Len(stk)].i = m],
                mode |-> "call", done |-> -1]
       ELSE [b |-> b, stack |-> Pop(stk), mode |-> "ret",
             done |-> IF Len(stk) = 1 THEN 0 ELSE -1]

target_holes == sudoku_holes_for_difficulty(difficulty)

\* History: the result of a generate_puzzle call that directly followed sudoku_seed(run)
\* is kept in ref if it is the first such call.
Recorded(code, bs) ==
    IF run >= 0 /\ ref = NoRef
    THEN [seed |-> run, difficulty |-> difficulty, ret |-> code, call |-> ncalls,
          out_puzzle |-> bs.out_puzzle, out_solution |-> bs.out_solution]
    ELSE ref

\* solve_backtrack returned res (1 or 0) at the root, leaving board b2 and generator
\* state s2: the rest of sudoku_solve or sudoku_generate_solution, and of their caller.
Return(res, b2, s2) ==
    LET code == IF res = 1 THEN SUDOKU_OK ELSE SUDOKU_ERR_UNSOLVABLE
        bs == [boards EXCEPT ![sb] = b2]
    IN /\ g_rand' = s2
       /\ stack' = <<>>
       /\ mode' = "call"
       /\ IF api = "sudoku_generate_puzzle" /\ inner = "sudoku_generate_solution"
          THEN IF code # SUDOKU_OK
               THEN /\ boards' = bs
                    /\ ret' = code
                    /\ pc' = "idle"
                    /\ tries' = tries
                    /\ ref' = Recorded(code, bs)
               ELSE /\ boards' = [bs EXCEPT !.out_puzzle = sudoku_copy(bs.out_solution)]
                    /\ ret' = ret
                    /\ pc' = "carve"
                    /\ tries' = 0
                    /\ ref' = ref
          ELSE IF api = "sudoku_generate_puzzle" /\ inner = "sudoku_solve"
          THEN /\ boards' = IF code # SUDOKU_OK
                            THEN [bs EXCEPT !.out_puzzle[cell.rr][cell.cc] = cell.saved]
                            ELSE bs
               /\ ret' = ret
               /\ pc' = "carve"
               /\ tries' = tries
               /\ ref' = ref
          ELSE /\ boards' = bs
               /\ ret' = code
               /\ pc' = "idle"
               /\ tries' = tries
               /\ ref' = ref
       /\ UNCHANGED <<g_seeded, api, inner, sb, difficulty, cell, args, ncalls, entry,
                      seeds, run>>

\* The search goes on after try_candidates gave t, with generator state s.
Continue(t, s) ==
    /\ boards' = [boards EXCEPT ![sb] = t.b]
    /\ stack' = t.stack
    /\ mode' = t.mode
    /\ g_rand' = s
    /\ UNCHANGED <<g_seeded, pc, api, inner, sb, ret, difficulty, tries, cell, args,
                   ncalls, entry, seeds, run, ref>>

\* One activation of solve_backtrack is entered.  No empty cell: it returns 1, and so
\* does every activation below it.  Otherwise it shuffles its candidates and runs its loop
\* up to the first recursive call.  (The locals are bound with \E over singleton sets.)
SolveCall ==
    /\ pc = "solve_backtrack"
    /\ mode = "call"
    /\ \E e \in {find_empty_cell(boards[sb])} :
          IF e[1] = 0
          THEN Return(1, boards[sb], g_rand)
          ELSE \E sh \in {shuffle_ints(<<1, 2, 3, 4, 5, 6, 7, 8, 9>>, 9, g_rand)} :
               \E stk \in {Append(stack, [row |-> e[2], col |-> e[3], nums |-> sh.a, i |-> 0])} :
               \E t \in {try_candidates(boards[sb], stk, 0)} :
                  IF t.done = -1 THEN Continue(t, sh.s) ELSE Return(t.done, t.b, sh.s)

\* Faulty variant of SolveRetry: the cell of the failed placement is not reset.
SolveRetryNoReset ==
    /\ pc = "solve_backtrack"
    /\ mode = "ret"
    /\ \E f \in {Top(stack)} :
       \E t \in {try_candidates(boards[sb], stack, f.i + 1)} :
          IF t.done = -1 THEN Continue(t, g_rand) ELSE Return(t.done, t.b, g_rand)

\* A recursive call returned 0 to the top activation: the cell is reset and the loop
\* goes on with the next candidate.
SolveRetry ==
    /\ pc = "solve_backtrack"
    /\ mode = "ret"
    /\ \E f \in {Top(stack)} :
       \E b \in {[boards[sb] EXCEPT ![f.row][f.col] = 0]} :
       \E t \in {try_candidates(b, stack, f.i + 1)} :
          IF t.done = -1 THEN Continue(t, g_rand) ELSE Return(t.done, t.b, g_rand)

(* ------------------------------ API calls ------------------------------ *)

\* sudoku_generate_solution(out) up to its call of solve_backtrack, from rng state st.
StartGenerateSolution(out, st, caller) ==
    LET st2 == seed_if_needed(st)
    IN /\ g_seeded' = st2.g_seeded
       /\ g_rand' = st2.g_rand
       /\ seeds' = st2.seeds
       /\ boards' = [boards EXCEPT ![out] = sudoku_clear(boards[out])]
       /\ pc' = "solve_backtrack"
       /\ api' = caller
       /\ inner' = "sudoku_generate_solution"
       /\ sb' = out
       /\ stack' = <<>>
       /\ mode' = "call"
       /\ ret' = -1
       /\ args' = NoArgs
       /\ cell' = NoCell
       /\ entry' = sudoku_clear(boards[out])
       /\ ncalls' = ncalls + 1

\* API: sudoku_generate_solution(&board).
GenerateSolution ==
    /\ pc = "idle"
    /\ ncalls < MaxCalls
    /\ StartGenerateSolution("board", RngState, "sudoku_generate_solution")
    /\ run' = -1
    /\ UNCHANGED <<difficulty, tries, ref>>

\* API: sudoku_generate_puzzle(&out_puzzle, &out_solution, d), up to solve_backtrack.
GeneratePuzzle(d) ==
    /\ pc = "idle"
    /\ ncalls < MaxCalls
    /\ StartGenerateSolution("out_solution", seed_if_needed(RngState), "sudoku_generate_puzzle")
    /\ difficulty' = d
    /\ run' = IF api = "sudoku_seed" THEN args.seed ELSE -1
    /\ UNCHANGED <<tries, ref>>

\* Faulty variant of StartSolve: sudoku_is_valid_partial turns every board down.
StartSolveRejects(b, st) ==
    [st |-> seed_if_needed(st), valid |-> FALSE]

\* sudoku_solve(b) on rng state st, up to its call of solve_backtrack: the rng state,
\* and whether sudoku_is_valid_partial let the board through.
StartSolve(b, st) ==
    [st |-> seed_if_needed(st), valid |-> sudoku_is_valid_partial(b)]

\* API: sudoku_solve(&board), the caller's board being first loaded with
\* sudoku_copy(&board, src) unless src is the board itself.
Solve(src) ==
    /\ pc = "idle"
    /\ ncalls < MaxCalls
    /\ src # "board" => api = "sudoku_generate_puzzle" /\ ret = SUDOKU_OK
    /\ LET b == IF src = "board" THEN boards.board ELSE sudoku_copy(boards[src])
           s == StartSolve(b, RngState)
       IN /\ g_seeded' = s.st.g_seeded
          /\ g_rand' = s.st.g_rand
          /\ seeds' = s.st.seeds
          /\ boards' = [boards EXCEPT !.board = b]
          /\ entry' = b
          /\ IF ~s.valid
             THEN ret' = SUDOKU_ERR_UNSOLVABLE /\ pc' = "idle"
             ELSE ret' = -1 /\ pc' = "solve_backtrack"
    /\ api' = "sudoku_solve"
    /\ inner' = "sudoku_solve"
    /\ sb' = "board"
    /\ stack' = <<>>
    /\ mode' = "call"
    /\ args' = [NoArgs EXCEPT !.src = src]
    /\ cell' = NoCell
    /\ ncalls' = ncalls + 1
    /\ run' = -1
    /\ UNCHANGED <<difficulty, tries, ref>>

\* One iteration of the carving loop of sudoku_generate_puzzle, up to the call of
\* solve_backtrack inside sudoku_solve(&tmp); or the loop's exit and the return.
CarveStep ==
    /\ pc = "carve"
    /\ IF count_holes(boards.out_puzzle) < target_holes /\ tries < max_tries
       THEN LET r1 == rand_int(9, g_rand)
                r2 == rand_int(9, r1.s)
                rr == r1.v
                cc == r2.v
                saved == boards.out_puzzle[rr][cc]
                removed == [boards.out_puzzle EXCEPT ![rr][cc] = 0]
                s == StartSolve(sudoku_copy(removed),
                                [g_seeded |-> g_seeded, g_rand |-> r2.s, seeds |-> seeds])
            IN /\ tries' = tries + 1
               /\ IF saved = 0
                  THEN /\ g_rand' = r2.s
                       /\ UNCHANGED <<g_seeded, seeds, boards, pc, inner, sb, cell, entry>>
                  ELSE /\ g_seeded' = s.st.g_seeded
                       /\ g_rand' = s.st.g_rand
                       /\ seeds' = s.st.seeds
                       /\ cell' = [rr |-> rr, cc |-> cc, saved |-> saved]
                       /\ inner' = "sudoku_solve"
                       /\ sb' = "tmp"
                       /\ entry' = sudoku_copy(removed)
                       /\ IF ~s.valid
                          THEN /\ boards' = [boards EXCEPT
                                                !.out_puzzle = [removed EXCEPT ![rr][cc] = saved],
                                                !.tmp = sudoku_copy(removed)]
                               /\ pc' = "carve"
                          ELSE /\ boards' = [boards EXCEPT !.out_puzzle = removed,
                                                           !.tmp = sudoku_copy(removed)]
                               /\ pc' = "solve_backtrack"
               /\ UNCHANGED <<ret, ref>>
       ELSE /\ ret' = SUDOKU_OK
            /\ pc' = "idle"
            /\ ref' = Recorded(SUDOKU_OK, boards)
            /\ UNCHANGED <<g_seeded, g_rand, seeds, boards, inner, sb, cell, tries, entry>>
    /\ UNCHANGED <<api, stack, mode, difficulty, args, ncalls, run>>

Next ==
    \/ \E s \in Seeds : Seed(s)
    \/ \E d \in Difficulties : GeneratePuzzle(d)
    \/ GenerateSolution
    \/ \E src \in {"board", "out_puzzle", "out_solution"} : Solve(src)
    \/ CarveStep
    \/ SolveCall
    \/ SolveRetry

Spec == Init /\ [][Next]_vars


(* ----------------------- the validator and solver API ------------------ *)

\* Arguments of sudoku_can_place: both sides of the valid ranges 0..8 and 1..9.
CoordArgs == -1..9
ValueArgs == -1..10
\* At most MaxQueries validator calls are made in one run of the program.
MaxQueries == 1

\* API: sudoku_can_place(&board, row, col, value).
CanPlace(row, col, value) ==
    /\ pc = "idle"
    /\ ncalls < MaxQueries
    /\ ret' = IF sudoku_can_place(boards.board, row, col, value) THEN 1 ELSE 0
    /\ args' = [NoArgs EXCEPT !.row = row, !.col = col, !.value = value]
    /\ api' = "sudoku_can_place"
    /\ ncalls' = ncalls + 1
    /\ UNCHANGED <<g_seeded, g_rand, boards, pc, inner, sb, stack, mode, difficulty,
                   tries, cell, entry, seeds, run, ref>>

\* API: sudoku_is_valid_partial(&board).
IsValidPartial ==
    /\ pc = "idle"
    /\ ncalls < MaxQueries
    /\ ret' = IF sudoku_is_valid_partial(boards.board) THEN 1 ELSE 0
    /\ args' = NoArgs
    /\ api' = "sudoku_is_valid_partial"
    /\ ncalls' = ncalls + 1
    /\ UNCHANGED <<g_seeded, g_rand, boards, pc, inner, sb, stack, mode, difficulty,
                   tries, cell, entry, seeds, run, ref>>

\* The caller's boards the solver and the validator are tried on: a solved grid, some of
\* its cells blanked, and three cells (two of row 0, two of column 0) overwritten with
\* an empty cell, a digit of the same row or column, or a value outside 0..9.
Grid0 == [r \in Idx |-> [c \in Idx |-> (((r % 3) * 3 + (r \div 3) + c) % 9) + 1]]
BlankPatterns ==
    { {},
      {<<r, c>> : r \in 6..8, c \in Idx},
      {<<r, c>> : r \in 3..8, c \in 0..2} }
PokeCells == <<<<0, 0>>, <<0, 1>>, <<3, 0>>>>
PokeVals == {-1, 0, 1, 2, 10}

Poked(blank, vs) ==
    [r \in Idx |-> [c \in Idx |->
        IF \E k \in 1..Len(PokeCells) : PokeCells[k] = <<r, c>>
        THEN vs[CHOOSE k \in 1..Len(PokeCells) : PokeCells[k] = <<r, c>>]
        ELSE IF <<r, c>> \in blank THEN 0 ELSE Grid0[r][c]]]

InputBoards ==
    {Poked(blank, vs) : blank \in BlankPatterns, vs \in [1..Len(PokeCells) -> PokeVals]}
\* The boards the validator is queried on leave the digit 1 out of the overwriting values.
QueryBoards ==
    {Poked(blank, vs) : blank \in BlankPatterns,
                        vs \in [1..Len(PokeCells) -> PokeVals \ {1}]}

\* The program with a board of the caller's own making, drawn from the set bs.
InitWith(bs) ==
    /\ g_seeded = 0
    /\ g_rand = srand(1)
    /\ \E b \in bs :
         boards = [out_solution |-> ZeroBoard, out_puzzle |-> ZeroBoard,
                   tmp |-> ZeroBoard, board |-> b]
    /\ pc = "idle"
    /\ api = "none"
    /\ inner = "none"
    /\ sb = "board"
    /\ stack = <<>>
    /\ mode = "call"
    /\ ret = -1
    /\ difficulty = 0
    /\ tries = 0
    /\ cell = NoCell
    /\ args = NoArgs
    /\ ncalls = 0
    /\ entry = ZeroBoard
    /\ seeds = [explicit |-> FALSE, default |-> 0]
    /\ run = -1
    /\ ref = NoRef

NextSolve ==
    \/ \E s \in Seeds : Seed(s)
    \/ GenerateSolution
    \/ Solve("board")
    \/ SolveCall
    \/ SolveRetry

\* The solver API on the caller's boards.
InitSolve == InitWith(InputBoards)

SpecSolve == InitSolve /\ [][NextSolve]_vars

\* Boards with two cells given: (0, 0) and a cell of its row, its column, its box only,
\* or none of them, holding the same digit or another one.
PairCells == {<<0, 5>>, <<5, 0>>, <<1, 1>>, <<4, 4>>}
PairBoards ==
    {[r \in Idx |-> [c \in Idx |->
         IF <<r, c>> = <<0, 0>> THEN 1 ELSE IF <<r, c>> = q THEN v ELSE 0]] :
       q \in PairCells, v \in 1..2}

InitValidator == InitWith(QueryBoards \cup PairBoards)

NextValidator ==
    \/ /\ ncalls < MaxQueries
       /\ \E row \in CoordArgs, col \in CoordArgs, value \in ValueArgs :
             CanPlace(row, col, value)
    \/ IsValidPartial

\* The solver API runs every call it started to completion.
SpecSolveLive == SpecSolve /\ WF_vars(SolveCall) /\ WF_vars(SolveRetry)

\* One sudoku_generate_puzzle call, after any seeding, run to completion: the
\* single-threaded program keeps executing the call it is in.
NextCarve ==
    \/ \E s \in Seeds : Seed(s)
    \/ ncalls = 0 /\ \E d \in Difficulties : GeneratePuzzle(d)
    \/ CarveStep
    \/ SolveCall
    \/ SolveRetry

SpecCarve == Init /\ [][NextCarve]_vars

SpecCarveLive ==
    SpecCarve /\ WF_vars(CarveStep) /\ WF_vars(SolveCall) /\ WF_vars(SolveRetry)

\* The validator API on the caller's boards.
SpecValidator == InitValidator /\ [][NextValidator]_vars


(* ------------------------- the rules of the game ----------------------- *)
(* Stated on their own, not through the program's functions.               *)

Cells == Idx \X Idx
SameRow(p, q) == p[1] = q[1]
SameCol(p, q) == p[2] = q[2]
SameBox(p, q) == (p[1] \div 3) = (q[1] \div 3) /\ (p[2] \div 3) = (q[2] \div 3)
\* Two distinct cells of one row, one column or one 3x3 box.
Peers(p, q) == p # q /\ (SameRow(p, q) \/ SameCol(p, q) \/ SameBox(p, q))

AllInRange(b) == \A p \in Cells : b[p[1]][p[2]] \in 1..9
NoRepeat(b) ==
    \A p \in Cells, q \in Cells :
        Peers(p, q) /\ b[p[1]][p[2]] # 0 => b[p[1]][p[2]] # b[q[1]][q[2]]
\* A full valid assignment.
FullValid(b) == AllInRange(b) /\ NoRepeat(b)
\* Board g agrees with every non-zero cell of board b.
Extends(g, b) == \A p \in Cells : b[p[1]][p[2]] # 0 => g[p[1]][p[2]] = b[p[1]][p[2]]
Holes(b) == Cardinality({p \in Cells : b[p[1]][p[2]] = 0})

\* The hole counts of the difficulty table.
TargetOf(d) == IF d = 0 THEN 35 ELSE IF d = 1 THEN 45 ELSE IF d = 2 THEN 55 ELSE 45

RECURSIVE Completable(_)
\* Some full valid assignment extends board b (whose cells are in 0..9).
Completable(b) ==
    IF \A p \in Cells : b[p[1]][p[2]] # 0
    THEN FullValid(b)
    ELSE LET p == CHOOSE p \in Cells : b[p[1]][p[2]] = 0
         IN \E v \in 1..9 :
               /\ \A q \in Cells : Peers(p, q) => b[q[1]][q[2]] # v
               /\ Completable([b EXCEPT ![p[1]][p[2]] = v])

\* value is in the row, the column or the box of cell (row, col), that cell included.
Occurs(b, row, col, value) ==
    \E q \in Cells : (q = <<row, col>> \/ Peers(<<row, col>>, q)) /\ b[q[1]][q[2]] = value

Solved == pc = "idle" /\ api = "sudoku_solve"
GeneratedPuzzle == pc = "idle" /\ api = "sudoku_generate_puzzle" /\ ret = SUDOKU_OK
GeneratedSolution == pc = "idle" /\ api = "sudoku_generate_solution" /\ ret = SUDOKU_OK

(* -------------------------------- claims ------------------------------- *)

\* C1: whenever sudoku_generate_solution or sudoku_generate_puzzle returns SUDOKU_OK,
\* the solution board has every cell in 1..9, sudoku_is_valid_partial accepts it, and
\* no digit repeats in a row, a column or a 3x3 box.
C1_SolutionIsValid ==
    /\ GeneratedPuzzle =>
         /\ AllInRange(boards.out_solution)
         /\ sudoku_is_valid_partial(boards.out_solution)
         /\ NoRepeat(boards.out_solution)
    /\ GeneratedSolution =>
         /\ AllInRange(boards.board)
         /\ sudoku_is_valid_partial(boards.board)
         /\ NoRepeat(boards.board)

\* A Hard puzzle has been returned together with its solution.
C1_Witness ==
    GeneratedPuzzle /\ difficulty = SUDOKU_DIFFICULTY_HARD /\ Holes(boards.out_solution) = 0

\* C2: at every iteration boundary of the carving loop and after sudoku_generate_puzzle
\* returned SUDOKU_OK, every cell of the puzzle is 0 or equal to the solution's cell.
C2_PuzzleWithinSolution ==
    (api = "sudoku_generate_puzzle" /\ (pc = "carve" \/ GeneratedPuzzle)) =>
        \A p \in Cells :
            \/ boards.out_puzzle[p[1]][p[2]] = 0
            \/ boards.out_puzzle[p[1]][p[2]] = boards.out_solution[p[1]][p[2]]

\* The loop is at an iteration boundary with cells removed and cells left.
C2_Witness ==
    /\ api = "sudoku_generate_puzzle"
    /\ pc = "carve"
    /\ tries > 30
    /\ \E p \in Cells : boards.out_puzzle[p[1]][p[2]] = 0
    /\ \E p \in Cells : boards.out_puzzle[p[1]][p[2]] # 0

\* C3: the returned puzzle has at most the difficulty's target of holes (35, 45, 55, and
\* 45 for an unrecognized difficulty), and exactly the target when fewer than 2000
\* attempts were spent.
C3_HoleCount ==
    GeneratedPuzzle =>
        /\ Holes(boards.out_puzzle) <= TargetOf(difficulty)
        /\ tries < 2000 => Holes(boards.out_puzzle) = TargetOf(difficulty)

\* An unrecognized difficulty was served with exactly 45 holes within the budget.
C3_Witness ==
    /\ GeneratedPuzzle
    /\ difficulty = 3
    /\ tries < 2000
    /\ Holes(boards.out_puzzle) = 45

\* C4: the returned puzzle passes sudoku_is_valid_partial, a full valid assignment
\* extends its non-zero cells, and sudoku_solve on a copy of it returns SUDOKU_OK,
\* also when the target hole count was not reached.
C4_PuzzleSolvable ==
    /\ GeneratedPuzzle =>
         /\ sudoku_is_valid_partial(boards.out_puzzle)
         /\ \E g \in {boards.out_solution} : FullValid(g) /\ Extends(g, boards.out_puzzle)
    /\ (pc = "idle" /\ api = "sudoku_solve" /\ args.src = "out_puzzle") =>
         ret = SUDOKU_OK

\* A puzzle that ran out of attempts below its target was copied and solved.
C4_Witness ==
    /\ pc = "idle"
    /\ api = "sudoku_solve"
    /\ args.src = "out_puzzle"
    /\ ret = SUDOKU_OK
    /\ tries = max_tries
    /\ Holes(boards.out_puzzle) < TargetOf(difficulty)
    /\ entry = boards.out_puzzle


\* C5: when sudoku_solve returns SUDOKU_OK the board has no empty cell, obeys the
\* row, column and box rules and keeps every cell that was non-zero at entry; an
\* already solved valid board is returned with SUDOKU_OK, unchanged.
C5_SolveResult ==
    Solved =>
        /\ ret = SUDOKU_OK => FullValid(boards.board) /\ Extends(boards.board, entry)
        /\ FullValid(entry) => ret = SUDOKU_OK /\ boards.board = entry

\* A board with holes was solved into a grid other than the one it was cut from.
C5_Witness ==
    /\ Solved
    /\ ret = SUDOKU_OK
    /\ Holes(entry) > 0
    /\ boards.board # Grid0

\* C6: sudoku_solve returns SUDOKU_OK exactly when its input passes
\* sudoku_is_valid_partial and has a full valid completion, and SUDOKU_ERR_UNSOLVABLE
\* in every other case.
C6_SolveDecides ==
    Solved =>
        ret = IF sudoku_is_valid_partial(entry) /\ Completable(entry)
              THEN SUDOKU_OK
              ELSE SUDOKU_ERR_UNSOLVABLE

\* A consistent board without completion was reported unsolvable.
C6_Witness ==
    /\ Solved
    /\ ret = SUDOKU_ERR_UNSOLVABLE
    /\ sudoku_is_valid_partial(entry)
    /\ Holes(entry) > 20

\* C7: a sudoku_generate_puzzle call that directly follows sudoku_seed(s) returns the
\* same code, puzzle and solution as the first such call with the same s and difficulty.
C7_Deterministic ==
    (GeneratedPuzzle \/ (pc = "idle" /\ api = "sudoku_generate_puzzle"))
    /\ run >= 0 /\ ref.seed = run /\ ref.difficulty = difficulty
    => /\ ret = ref.ret
       /\ boards.out_puzzle = ref.out_puzzle
       /\ boards.out_solution = ref.out_solution

\* The second of two calls seeded alike has returned.
C7_Witness ==
    /\ GeneratedPuzzle
    /\ ncalls = 2
    /\ run >= 0
    /\ ref.seed = run
    /\ ref.difficulty = difficulty
    /\ ref.call = 1

C9_GenerateFromEmpty ==
    /\ [](pc = "idle" /\ api = "sudoku_generate_solution" => ret = SUDOKU_OK)
    /\ [][ (pc = "idle" /\ pc' = "solve_backtrack" /\ api' = "sudoku_generate_solution")
             => boards'.board = ZeroBoard ]_vars
    /\ (pc = "solve_backtrack" /\ api = "sudoku_generate_solution")
          ~> (GeneratedSolution /\ FullValid(boards.board))

\* A board that held a caller's cells was regenerated.
C9_Witness ==
    /\ GeneratedSolution
    /\ ncalls = 1
    /\ Holes(boards.board) = 0

\* C10: sudoku_can_place returns 1 exactly when row and col are in 0..8, value is in
\* 1..9 and value is in no cell of the row, the column and the box of (row, col);
\* it leaves the board as it was.
C10_CanPlace ==
    /\ [](api = "sudoku_can_place" =>
            ret = IF /\ args.row \in 0..8
                     /\ args.col \in 0..8
                     /\ args.value \in 1..9
                     /\ ~Occurs(boards.board, args.row, args.col, args.value)
                  THEN 1 ELSE 0)
    /\ [][api' = "sudoku_can_place" => boards' = boards]_vars

\* A digit was accepted at an empty cell.
C10_Witness ==
    /\ api = "sudoku_can_place"
    /\ ret = 1
    /\ boards.board[args.row][args.col] = 0

\* C11: sudoku_is_valid_partial returns 1 exactly when every cell is 0 or in 1..9 and no
\* two distinct cells of one row, column or box hold the same non-zero value; it leaves
\* the board as it was.
C11_ValidPartial ==
    /\ [](api = "sudoku_is_valid_partial" =>
            ret = IF /\ \A p \in Cells : boards.board[p[1]][p[2]] \in 0..9
                     /\ NoRepeat(boards.board)
                  THEN 1 ELSE 0)
    /\ [][api' = "sudoku_is_valid_partial" => boards' = boards]_vars

\* A board with givens and empty cells was accepted.
C11_Witness ==
    /\ api = "sudoku_is_valid_partial"
    /\ ret = 1
    /\ Holes(boards.board) \in 1..80

\* The carving loop is at its head, inside sudoku_generate_puzzle.
AtLoopHead == api = "sudoku_generate_puzzle" /\ pc = "carve"
\* The cell the iteration starting now picks is already empty.
PicksEmpty ==
    LET r1 == rand_int(9, g_rand)
        r2 == rand_int(9, r1.s)
    IN boards.out_puzzle[r1.v][r2.v] = 0

\* C12: the carving loop ends after at most 2000 iterations.  Every iteration spends
\* exactly one attempt, one that picks an empty cell included (it changes no cell of the
\* puzzle), and the sudoku_solve call inside an iteration spends none; the loop stops as
\* soon as the holes reach the target or 2000 attempts are spent, and the function then
\* returns SUDOKU_OK with the puzzle as it is, below the target or not.
C12_CarveTerminates ==
    /\ [](tries <= 2000)
    /\ [][ AtLoopHead =>
             IF Holes(boards.out_puzzle) < TargetOf(difficulty) /\ tries < 2000
             THEN /\ tries' = tries + 1
                  /\ pc' \in {"carve", "solve_backtrack"}
                  /\ PicksEmpty => pc' = "carve" /\ boards'.out_puzzle = boards.out_puzzle
             ELSE /\ pc' = "idle"
                  /\ ret' = SUDOKU_OK
                  /\ tries' = tries
                  /\ boards' = boards ]_vars
    /\ [][ api = "sudoku_generate_puzzle" /\ pc = "solve_backtrack" => tries' = tries ]_vars
    /\ AtLoopHead ~> GeneratedPuzzle

\* The loop spent its 2000 attempts and the puzzle was returned below its target.
C12_Witness ==
    /\ GeneratedPuzzle
    /\ tries = 2000
    /\ Holes(boards.out_puzzle) < TargetOf(difficulty)
    /\ Holes(boards.out_puzzle) > 0

\* C13: whenever sudoku_solve returns SUDOKU_ERR_UNSOLVABLE, because the input was
\* rejected or because the search was exhausted, the board is cell for cell what it was
\* at call entry.
C13_UnsolvableRestores ==
    (Solved /\ ret = SUDOKU_ERR_UNSOLVABLE) => boards.board = entry

\* A search that started on a consistent board with empty cells was exhausted, and the
\* board is again the one that was passed in.
C13_Witness ==
    /\ Solved
    /\ ret = SUDOKU_ERR_UNSOLVABLE
    /\ sudoku_is_valid_partial(entry)
    /\ Holes(entry) > 0
    /\ boards.board = entry

\* The sudoku_solve call of a carving iteration is in progress on tmp.
InCheck ==
    api = "sudoku_generate_puzzle" /\ inner = "sudoku_solve" /\ pc = "solve_backtrack"

\* C14: inside sudoku_generate_puzzle the solvability check never vetoes a removal.  A
\* pick of a non-empty cell always gets to the search (the copy is not turned down), the
\* search returns with tmp solved, the removed cell stays 0 (the restore branch is not
\* taken), and the hole count of the puzzle is one more than before the attempt; a
\* puzzle returned below its target has spent all 2000 attempts.
C14_NoVeto ==
    /\ [][ (AtLoopHead /\ pc' # "idle" /\ ~PicksEmpty) =>
             /\ pc' = "solve_backtrack"
             /\ Holes(boards'.out_puzzle) = Holes(boards.out_puzzle) + 1 ]_vars
    /\ [][ (InCheck /\ pc' = "carve") =>
             /\ FullValid(boards'.tmp)
             /\ Extends(boards'.tmp, boards.out_puzzle)
             /\ boards'.out_puzzle = boards.out_puzzle
             /\ boards'.out_puzzle[cell.rr][cell.cc] = 0 ]_vars
    /\ [](InCheck => boards.out_puzzle[cell.rr][cell.cc] = 0 /\ cell.saved # 0)
    /\ [](GeneratedPuzzle /\ Holes(boards.out_puzzle) < TargetOf(difficulty)
             => tries = 2000)

\* Late in a Hard run a removal has just been let through, and the grid the check
\* found is not the solution the puzzle was cut from.
C14_Witness ==
    /\ AtLoopHead
    /\ difficulty = SUDOKU_DIFFICULTY_HARD
    /\ Holes(boards.out_puzzle) >= 50
    /\ cell.saved # 0
    /\ boards.out_puzzle[cell.rr][cell.cc] = 0
    /\ FullValid(boards.tmp)
    /\ Extends(boards.tmp, boards.out_puzzle)
    /\ boards.tmp # boards.out_solution

=============================================================================
